---- MODULE Spec2Model ----
(***************************************************************************)
(* Model of cava_filter: CavaFilter::process_command_line's validation,    *)
(* CavaFilter::generate_spectrum_file and the two line printers            *)
(* (src/src/cava_filter.cpp).                                              *)
(*                                                                         *)
(* Real numbers are modelled exactly as fractions:                         *)
(*   framerate                   = framerate[1] / framerate[2]             *)
(*   samples_per_frame           = SpfNum / SpfDen                         *)
(*   current_accumulated_sample_fractions (Carry State)                    *)
(*                               = numerator over SpfDen                   *)
(*   frame_bars[i], cava_out[i]  = numerator over execs_per_frame          *)
(*                                 (cava_out: over 1)                      *)
(* All accepted configurations keep rate * channels and samples_per_frame  *)
(* far inside the range of int, so no integer conversion overflows.        *)
(***************************************************************************)
EXTENDS Integers, Sequences, FiniteSets, TLC

\* ------------------------------------------------------------------ bounds
MaxFrames == 4     \* full reads are granted only while fewer frames are done
MaxExecs == 5      \* configurations with more execs per frame are not drawn
MaxBars == 2       \* bars_per_channel ranges over 2 .. MaxBars

\* ------------------------------------------------------ program constants
input_len_per_channel == 4096

\* ------------------------------------------------------- input value sets
Rates == {1, 3, 4096, 44100, 81913}
Framerates == {<<25, 1>>, <<24, 1>>, <<4, 1>>, <<1, 1>>, <<1, 2>>}
BadRates == {0}             \* option values process_command_line rejects
BadFramerates == {<<0, 1>>, <<-1, 1>>}
BadChannels == {3}
BadBars == {1, 201}
Cutoffs == {<<50, 10000>>, <<0, 100>>, <<100, 100>>}
Seeds == {0, 1}             \* which vector the opaque engine returns
Garbage == {-7, 10}         \* numerators read from beyond a vector's end

VARIABLES
  rate, channels, framerate, bars_per_channel, channels_out,
  print_freq_bands, cutoffs,              \* run configuration (class fields)
  pc,                                      \* position in main
  plan,                                    \* engine plan: "none", "live", "destroyed"
  current_accumulated_sample_fractions,    \* Carry State, numerator over SpfDen
  finished, read_idx, cava_out, frame_bars,
  stat,                                    \* Status: "ok" or "error"
  in_pos, in_eof, in_ferror,               \* input stream: items consumed, indicators
  out, last_line,                          \* output: line kinds/sizes, last line's values
  \* history of the run, not read by the program
  frames, complete, nreads, total_requested, last_exec, full_reads,
  frame_outs,
  prev_corr,        \* the stereo offset applied before the latest one
  base_sum,         \* sum of the base read lengths of the current frame
  fed_end,          \* stream offset just after the last block given to the engine
  calls,            \* engine calls and returns counted, last execute's arguments
  since_line        \* read_idx of the executes since the last bar-value line

cfgvars == <<rate, channels, framerate, bars_per_channel, channels_out,
             print_freq_bands, cutoffs>>
histvars == <<frames, complete, nreads, total_requested, last_exec,
              full_reads, frame_outs, prev_corr, base_sum, fed_end, calls,
              since_line>>
vars == <<cfgvars, pc, plan, current_accumulated_sample_fractions, finished,
          read_idx, cava_out, frame_bars, stat, in_pos, in_eof, in_ferror,
          out, last_line, histvars>>

\* ------------------------------------------------------------- arithmetic
\* (int) of the real number p/q, q > 0: truncation toward zero
Trunc(p, q) == IF p >= 0 THEN p \div q ELSE -((-p) \div q)

\* ceil of the real number p/q, q > 0
Ceil(p, q) == -((-p) \div q)

\* C's num % 2 converted to bool
is_odd(num) == num % 2 # 0

\* ---------------------------------------------------------- the exec plan
\* size_t input_len = input_len_per_channel * channels
InputLen(c) == input_len_per_channel * c

\* samples_per_frame = (double)(rate * channels) / framerate = SpfN / SpfD
SpfN(r, c, f) == r * c * f[2]
SpfD(f) == f[1]

\* int execs_per_frame = ceil((samples_per_frame + channels) / input_len)
ExecsPerFrame_NoMargin(r, c, f) == Ceil(SpfN(r, c, f), InputLen(c) * SpfD(f))
ExecsPerFrame(r, c, f) ==
  Ceil(SpfN(r, c, f) + c * SpfD(f), InputLen(c) * SpfD(f))

\* int samples_per_exec = samples_per_frame / execs_per_frame
SamplesPerExec(r, c, f) ==
  Trunc(SpfN(r, c, f), SpfD(f) * ExecsPerFrame(r, c, f))

\* int samples_remainder = samples_per_frame - execs_per_frame * samples_per_exec
SamplesRemainder(r, c, f) ==
  Trunc(SpfN(r, c, f)
          - ExecsPerFrame(r, c, f) * SamplesPerExec(r, c, f) * SpfD(f),
        SpfD(f))

\* sample_fraction_per_frame = modf(samples_per_frame, &intpart), over SpfD
SampleFractionPerFrame_Dropped(r, c, f) == 0
SampleFractionPerFrame(r, c, f) ==
  SpfN(r, c, f) - Trunc(SpfN(r, c, f), SpfD(f)) * SpfD(f)

samples_per_frame_num == SpfN(rate, channels, framerate)
samples_per_frame_den == SpfD(framerate)
input_len == InputLen(channels)
bars_total == bars_per_channel * channels
execs_per_frame == ExecsPerFrame(rate, channels, framerate)
samples_per_exec == SamplesPerExec(rate, channels, framerate)
samples_remainder == SamplesRemainder(rate, channels, framerate)
sample_fraction_per_frame == SampleFractionPerFrame(rate, channels, framerate)

\* ------------------------------------------------- read length of one exec
\* size_t read_len = samples_per_exec + (read_idx < samples_remainder)
BaseLen_RemainderAtEnd(i) ==
  samples_per_exec
    + (IF i >= execs_per_frame - samples_remainder THEN 1 ELSE 0)
BaseLen(i) == samples_per_exec + (IF i < samples_remainder THEN 1 ELSE 0)

\* const int offset = is_odd(read_idx) ? -1 : 1, applied when channels == 2
\* and read_len is odd; 0 stands for "no adjustment"
StereoOffset_EvenIdxOnly(len, i) ==
  IF channels = 2 /\ is_odd(len) /\ ~is_odd(i) THEN 1 ELSE 0
StereoOffset(len, i) ==
  IF channels = 2 /\ is_odd(len)
  THEN (IF is_odd(i) THEN -1 ELSE 1)
  ELSE 0

\* The body of the for loop up to the fread: the requested read length of
\* exec i and the Carry State it leaves, from the Carry State c before it.
ResolveReadLen_CarryEveryExec(i, c) ==
  LET base == BaseLen(i)
      offset == StereoOffset(base, i)
      len1 == base + offset
      c1 == c - offset * samples_per_frame_den
      c2 == c1 + sample_fraction_per_frame
      extra == c2 >= channels * samples_per_frame_den
  IN [read_len |-> IF extra THEN len1 + channels ELSE len1,
      carry |-> IF extra THEN c2 - channels * samples_per_frame_den ELSE c2,
      base |-> base, offset |-> offset, extra |-> extra]
ResolveReadLen(i, c) ==
  LET base == BaseLen(i)
      offset == StereoOffset(base, i)
      len1 == base + offset
      c1 == c - offset * samples_per_frame_den
      last == (i = execs_per_frame - 1)
      c2 == IF last THEN c1 + sample_fraction_per_frame ELSE c1
      extra == last /\ c2 >= channels * samples_per_frame_den
  IN [read_len |-> IF extra THEN len1 + channels ELSE len1,
      carry |-> IF extra THEN c2 - channels * samples_per_frame_den ELSE c2,
      base |-> base, offset |-> offset, extra |-> extra]

\* ------------------------------------------------------------ input stream
\* fread(buf, sizeof(int16_t), n, in_file): the number of items returned.
\* A full read of n > 0 items is granted only while fewer than MaxFrames
\* frames are done (the stream is finite); a read of 0 items returns 0.
FreadResults(n) ==
  {k \in {0, n - 1, n} : 0 <= k /\ (k = n => (n = 0 \/ frames < MaxFrames))}

\* if (actual_num_read < read_len)
IsShortRead_OnlyEmpty(actual, len) == actual = 0 /\ len > 0
IsShortRead(actual, len) == actual < len

\* finished = 1 in the short-read branch
FinishedAfterShortRead_Unset == finished
FinishedAfterShortRead == 1

\* if (ferror(in_file)) stat.set_error(...)
StatAfterShortRead_Always(ferr) == "error"
StatAfterShortRead(ferr) == IF ferr THEN "error" ELSE stat

\* cava_execute(cava_in.data(), read_len, ...): the sample count passed
ExecuteCount_FullBuffer(len) == input_len
ExecuteCount(len) == len

\* for (...; read_idx < execs_per_frame; read_idx++)
ForCondition_Inclusive(i) == i <= execs_per_frame
ForCondition(i) == i < execs_per_frame

\* ------------------------------------------------------- the opaque engine
\* cava_execute writes bars_total values to cava_out
EngineOut(seed) ==
  [b \in 0 .. bars_total - 1 |->
     IF seed = 0 THEN 3 + 2 * b ELSE -(4 + 3 * b)]

\* plan->cut_off_frequency[i], a float: numerator over 10
cut_off_frequency(i) == 505 + 1237 * i

\* ------------------------------------------------------------ line printers
\* print_freq_bands_line: the lines it writes (none or one)
PrintFreqBandsLine_OneChannel ==
  IF print_freq_bands
  THEN << [k \in 1 .. bars_per_channel |->
             Trunc(cut_off_frequency(k - 1), 10)] >>
  ELSE << >>
PrintFreqBandsLine ==
  IF print_freq_bands
  THEN << [k \in 1 .. channels_out * bars_per_channel |->
             Trunc(cut_off_frequency((k - 1) % bars_per_channel), 10)] >>
  ELSE << >>

\* indices print_freq_vals_line may touch beyond the end of fb
OutOfBounds(fb) == {i \in 0 .. 2 * bars_per_channel - 1 : i \notin DOMAIN fb}

\* frame_bars[i]: the element, or whatever lies beyond the vector's end
At(fb, i, g) == IF i \in DOMAIN fb THEN fb[i] ELSE g[i]

\* print_freq_vals_line: the values of the line it writes, from the frame
\* accumulator fb (numerators over execs_per_frame)
PrintFreqValsLine(fb, g) ==
  [k \in 1 .. bars_per_channel * channels_out |->
     IF channels_out = 2
     THEN Trunc(At(fb, k - 1, g), execs_per_frame)
     ELSE Trunc(At(fb, k - 1, g) + At(fb, k - 1 + bars_per_channel, g),
                2 * execs_per_frame)]

\* ------------------------------------------------------- option checking
\* The checks of process_command_line on the values the options gave:
\* -b, -f, -c, -R, -C (a channels value other than 1 and 2 stands for any
\* other option string).
Accepted_BarsFrom1(b, f, cut, r, c) ==
  /\ ~(b < 1 \/ b > 200)
  /\ ~(f[1] <= 0)
  /\ ~(cut[1] < 1) /\ ~(cut[2] <= cut[1])
  /\ ~(r < 1)
  /\ c \in {1, 2}
Accepted(b, f, cut, r, c) ==
  /\ ~(b < 2 \/ b > 200)
  /\ ~(f[1] <= 0)
  /\ ~(cut[1] < 1) /\ ~(cut[2] <= cut[1])
  /\ ~(r < 1)
  /\ c \in {1, 2}

\* ProgramOpts::error(msg, opt): reports and ends the process
ErrorOutcome == "fatal"

\* ---------------------------------------------------------------- Init
\* The state after construction, with the option values stored in the
\* fields; accepted configurations are drawn within the bounds.
ValidConfig(r, c, f) ==
  /\ r >= 1
  /\ c \in {1, 2}
  /\ f[1] > 0 /\ f[2] > 0
  /\ ExecsPerFrame(r, c, f) <= MaxExecs

Init ==
  /\ rate \in Rates \cup BadRates
  /\ channels \in {1, 2} \cup BadChannels
  /\ framerate \in Framerates \cup BadFramerates
  /\ bars_per_channel \in (2 .. MaxBars) \cup BadBars
  /\ cutoffs \in Cutoffs
  /\ Accepted(bars_per_channel, framerate, cutoffs, rate, channels)
       => ValidConfig(rate, channels, framerate)
  /\ channels_out \in {1, 2}
  /\ print_freq_bands \in BOOLEAN
  /\ pc = "options"
  /\ plan = "none"
  /\ current_accumulated_sample_fractions = 0
  /\ finished = 0
  /\ read_idx = 0
  /\ cava_out = [b \in 0 .. bars_total - 1 |-> 0]
  /\ frame_bars = [b \in 0 .. bars_total - 1 |-> 0]
  /\ stat = "ok"
  /\ in_pos = 0 /\ in_eof = FALSE /\ in_ferror = FALSE
  /\ out = << >>
  /\ last_line = << >>
  /\ frames = 0 /\ complete = 0 /\ nreads = 0 /\ total_requested = 0
  /\ last_exec = [read_idx |-> 0, read_len |-> 0, base |-> 0, offset |-> 0,
                  extra |-> FALSE, actual |-> 0]
  /\ full_reads = 0
  /\ frame_outs = << >>
  /\ prev_corr = 0 /\ base_sum = 0 /\ fed_end = 0
  /\ calls = [init |-> 0, execute |-> 0, destroy |-> 0, return |-> 0,
              start |-> 0, count |-> 0]
  /\ since_line = << >>

\* main: process_command_line, the option checks; an error ends the process
\* before generate_spectrum_file is called
ProcessCommandLine ==
  /\ pc = "options"
  /\ pc' = IF Accepted(bars_per_channel, framerate, cutoffs, rate, channels)
           THEN "start" ELSE ErrorOutcome
  /\ UNCHANGED <<cfgvars, plan, current_accumulated_sample_fractions, finished,
                 read_idx, cava_out, frame_bars, stat, in_pos, in_eof,
                 in_ferror, out, last_line, histvars>>

\* -------------------------------------------------------------- actions
\* generate_spectrum_file up to the while loop: cava_init, the header line,
\* the buffers, the exec plan
Start ==
  /\ pc = "start"
  /\ plan' = "live"
  /\ out' = out \o [k \in 1 .. Len(PrintFreqBandsLine) |->
                      [kind |-> "header",
                       nvals |-> Len(PrintFreqBandsLine[k])]]
  /\ last_line' = IF PrintFreqBandsLine = << >> THEN last_line
                  ELSE PrintFreqBandsLine[1]
  /\ cava_out' = [b \in 0 .. bars_total - 1 |-> 0]
  /\ frame_bars' = [b \in 0 .. bars_total - 1 |-> 0]
  /\ current_accumulated_sample_fractions' = 0
  /\ finished' = 0
  /\ pc' = "frame"
  /\ calls' = [calls EXCEPT !.init = @ + 1]
  /\ UNCHANGED <<cfgvars, read_idx, stat, in_pos, in_eof, in_ferror, frames,
                 complete, nreads, total_requested, last_exec, full_reads,
                 frame_outs, prev_corr, base_sum, fed_end, since_line>>

\* while (!finished) { for (bar_idx ...) frame_bars[bar_idx] = 0;
FrameBars_AtFrameStart_Keep(fb) == fb
FrameBars_AtFrameStart(fb) == [b \in 0 .. bars_total - 1 |-> 0]

FrameBegin ==
  /\ pc = "frame"
  /\ finished = 0
  /\ frame_bars' = FrameBars_AtFrameStart(frame_bars)
  /\ read_idx' = 0
  /\ pc' = IF ForCondition(0) THEN "exec" ELSE "frame_end"
  /\ full_reads' = 0
  /\ frame_outs' = << >>
  /\ base_sum' = 0
  /\ UNCHANGED <<cfgvars, plan, current_accumulated_sample_fractions, finished,
                 cava_out, stat, in_pos, in_eof, in_ferror, out, last_line,
                 frames, complete, nreads, total_requested, last_exec,
                 prev_corr, fed_end, calls, since_line>>

\* frame_bars[bar_idx] += cava_out[bar_idx] / execs_per_frame
\* (numerators over execs_per_frame)
Accumulate(fb, co, len) == [b \in DOMAIN fb |-> fb[b] + co[b]]

\* One iteration of the for loop: resolve the read length, fread, then either
\* the short-read exit or convert, cava_execute and accumulate.
Exec ==
  /\ pc = "exec"
  /\ LET r == ResolveReadLen(read_idx, current_accumulated_sample_fractions)
     IN
       /\ current_accumulated_sample_fractions' = r.carry
       /\ \E actual \in FreadResults(r.read_len), ferr \in BOOLEAN,
             seed \in Seeds, crash \in BOOLEAN :
            /\ IF crash /\ r.read_len > input_len /\ actual > input_len
               THEN \* fread writes past the end of cava_in_int16 and the
                    \* process dies before the read returns
                 /\ pc' = "crashed"
                 /\ UNCHANGED <<finished, stat, in_eof, in_ferror, cava_out,
                                frame_bars, read_idx, full_reads, frame_outs,
                                complete, fed_end, calls, since_line,
                                nreads, total_requested, last_exec, in_pos,
                                prev_corr, base_sum>>
               ELSE
                  /\ nreads' = nreads + 1
                  /\ total_requested' = total_requested + r.read_len
                  /\ last_exec' = [read_idx |-> read_idx, read_len |-> r.read_len,
                                   base |-> r.base, offset |-> r.offset,
                                   extra |-> r.extra, actual |-> actual]
                  /\ in_pos' = in_pos + actual
                  /\ prev_corr' = IF last_exec.offset # 0 THEN last_exec.offset
                                  ELSE prev_corr
                  /\ base_sum' = base_sum + r.base
                  /\ IF IsShortRead(actual, r.read_len)
                     THEN
                       /\ finished' = FinishedAfterShortRead
                       /\ in_ferror' = ferr
                       /\ in_eof' = ~ferr
                       /\ stat' = StatAfterShortRead(ferr)
                       /\ pc' = "frame_end"      \* break
                       /\ UNCHANGED <<cava_out, frame_bars, read_idx, full_reads,
                                      frame_outs, complete, fed_end, calls,
                                      since_line>>
                     ELSE
                       /\ cava_out' = EngineOut(seed)
                       /\ frame_bars' = Accumulate(frame_bars, EngineOut(seed),
                                                   r.read_len)
                       /\ read_idx' = read_idx + 1
                       /\ pc' = IF ForCondition(read_idx + 1)
                                THEN "exec" ELSE "frame_end"
                       /\ full_reads' = IF actual = r.read_len
                                        THEN full_reads + 1 ELSE full_reads
                       /\ frame_outs' = Append(frame_outs, EngineOut(seed))
                       /\ complete' = IF read_idx + 1 < execs_per_frame
                                      THEN complete ELSE complete + 1
                       /\ calls' = [calls EXCEPT !.execute = @ + 1,
                                                 !.start = in_pos,
                                                 !.count = ExecuteCount(r.read_len)]
                       /\ fed_end' = in_pos + ExecuteCount(r.read_len)
                       /\ since_line' = Append(since_line, read_idx)
                       /\ UNCHANGED <<finished, stat, in_eof, in_ferror>>
  /\ UNCHANGED <<cfgvars, plan, out, last_line, frames>>

\* after the for loop: if (finished) break; print_freq_vals_line(frame_bars);
EmitsLine_Always(fin) == TRUE
EmitsLine(fin) == fin = 0

FrameEnd ==
  /\ pc = "frame_end"
  /\ IF EmitsLine(finished)
     THEN \E g \in [OutOfBounds(frame_bars) -> Garbage] :
            /\ last_line' = PrintFreqValsLine(frame_bars, g)
            /\ out' = Append(out, [kind |-> "bars",
                                   nvals |-> Len(PrintFreqValsLine(frame_bars, g))])
            /\ frames' = frames + 1
            /\ since_line' = << >>
     ELSE UNCHANGED <<out, last_line, frames, since_line>>
  /\ pc' = IF finished # 0 THEN "loop_exit" ELSE "frame"
  /\ UNCHANGED <<cfgvars, plan, current_accumulated_sample_fractions, finished,
                 read_idx, cava_out, frame_bars, stat, in_pos, in_eof,
                 in_ferror, complete, nreads, total_requested, last_exec,
                 full_reads, frame_outs, prev_corr, base_sum, fed_end, calls>>

\* cava_destroy(plan); free(plan); return stat;
Finish ==
  /\ pc = "loop_exit"
  /\ plan' = "destroyed"
  /\ pc' = "done"
  /\ calls' = [calls EXCEPT !.destroy = @ + 1, !.return = @ + 1]
  /\ UNCHANGED <<cfgvars, current_accumulated_sample_fractions, finished,
                 read_idx, cava_out, frame_bars, stat, in_pos, in_eof,
                 in_ferror, out, last_line, frames, complete, nreads,
                 total_requested, last_exec, full_reads, frame_outs,
                 prev_corr, base_sum, fed_end, since_line>>

Next == ProcessCommandLine \/ Start \/ FrameBegin \/ Exec \/ FrameEnd
          \/ Finish

Spec == Init /\ [][Next]_vars

\* ===================================================== properties checked
\* the options were accepted and generate_spectrum_file is reached
Entered == pc \notin {"options", "fatal"}
Abs(x) == IF x < 0 THEN -x ELSE x

\* floor(k * samples_per_frame)
FloorFrames(k) == (k * samples_per_frame_num) \div samples_per_frame_den

\* a frame boundary: K >= 1 frames completed, every read so far was full
AtFrameBoundary == pc = "frame" /\ frames >= 1 /\ finished = 0

\* C1: with no truncation, after K >= 1 completed frames the sum of all read
\* lengths requested differs from floor(K * samples_per_frame) by less than
\* one sample-pair (channels samples).
C1_NoDrift ==
  AtFrameBoundary =>
    Abs(total_requested - FloorFrames(frames)) < channels

\* C2: the read length of every exec, after the remainder unit, the stereo
\* correction and the carry-injected sample-pair, never exceeds
\* block_size = input_len_per_channel * channels, the capacity of the buffers.
C2_ReadFitsBuffer ==
  nreads > 0 => last_exec.read_len <= input_len_per_channel * channels

\* C3: when channels == 2, every read length requested from the input is an
\* even number of samples.
C3_StereoReadsEven ==
  (channels = 2 /\ nreads > 0) => last_exec.read_len % 2 = 0

\* C3 witness: a stereo last exec whose odd base length was corrected and
\* which also received the carry-injected sample-pair
C3_Witness ==
  /\ channels = 2 /\ nreads > 0
  /\ last_exec.offset # 0 /\ last_exec.extra
  /\ last_exec.read_idx = execs_per_frame - 1

\* the last line of out is a bar-value line
LastIsBars == Len(out) > 0 /\ out[Len(out)].kind = "bars"
BarsLines(o) == Cardinality({k \in 1 .. Len(o) : o[k].kind = "bars"})

\* C4: a bar-value line is emitted for a frame only if every one of its
\* execs_per_frame reads returned the full requested length; after a short
\* read no line is emitted, whatever number of earlier execs succeeded.
C4_NoPartialFrameLine ==
  [][ /\ (BarsLines(out') > BarsLines(out) =>
            /\ full_reads = execs_per_frame
            /\ read_idx = execs_per_frame
            /\ finished = 0)
      /\ (finished = 1 => out' = out) ]_vars

\* C4 witness: the run ended on a short read in the middle of a frame, after
\* some execs of that frame had succeeded, and only the earlier frames have
\* lines
C4_Witness ==
  /\ pc = "done"
  /\ full_reads >= 1 /\ full_reads < execs_per_frame
  /\ frames >= 1 /\ BarsLines(out) = frames /\ complete = frames

RECURSIVE Requested(_)
Requested(n) ==
  IF n = 0 THEN [sum |-> 0, carry |-> 0]
  ELSE LET p == Requested(n - 1)
           r == ResolveReadLen((n - 1) % execs_per_frame, p.carry)
       IN [sum |-> p.sum + r.read_len, carry |-> r.carry]

\* the sum of the read lengths of the first k frames
SumReads(k) == Requested(k * execs_per_frame).sum

\* the run returned after a clean end of input: the stream held in_pos samples
CleanEnd == pc = "done" /\ in_eof /\ ~in_ferror

\* C6: the number of bar-value lines equals the number of whole frames the
\* input holds: the largest K such that the read lengths of the first K
\* frames sum to at most the number of samples in the stream; for 44100 Hz,
\* 2 channels, 25 fps an input of exactly 3528*N samples gives N lines.
C6_LineCount ==
  CleanEnd =>
    /\ BarsLines(out) = frames
    /\ SumReads(frames) <= in_pos
    /\ in_pos < SumReads(frames + 1)
    /\ (rate = 44100 /\ channels = 2 /\ framerate = <<25, 1>>
          /\ in_pos % 3528 = 0) => frames * 3528 = in_pos

\* C6 witness: exactly 3528 * 3 samples were fed and three lines came out
C6_Witness ==
  /\ CleanEnd
  /\ rate = 44100 /\ channels = 2 /\ framerate = <<25, 1>>
  /\ in_pos = 3528 * 3 /\ frames = 3 /\ BarsLines(out) = 3

\* the read that ended the loop was short
EndedOnShortRead == finished = 1 /\ last_exec.actual < last_exec.read_len

\* C7: the terminal status is a failure iff the read that ended the loop was
\* short with the stream's error indicator set; a short read at clean end of
\* input gives success; every frame completed before has been emitted.
C7_TerminalStatus ==
  /\ pc = "done" =>
       /\ EndedOnShortRead
       /\ (stat = "error") <=> in_ferror
       /\ in_eof => stat = "ok"
       /\ BarsLines(out) = complete
  /\ pc \in {"start", "frame", "exec"} => stat = "ok"

\* C7 witness: a run that emitted frames and then failed on a read error
C7_Witness ==
  /\ pc = "done" /\ stat = "error" /\ in_ferror
  /\ complete >= 2 /\ BarsLines(out) = complete

\* a bar-value line has just been written from frame_bars
JustEmitted == pc = "frame" /\ frames >= 1 /\ LastIsBars

\* C8: with output channel count 1, the i-th emitted value (0 <= i <
\* bars_per_channel) is the truncation toward zero of
\* (A[i] + A[i + bars_per_channel]) / 2, A being the frame accumulator laid
\* out as two per-channel blocks of bars_per_channel values.
C8_ChannelAveraging ==
  (JustEmitted /\ channels_out = 1) =>
    /\ Len(last_line) = bars_per_channel
    /\ \A i \in 0 .. bars_per_channel - 1 :
         /\ i \in DOMAIN frame_bars
         /\ i + bars_per_channel \in DOMAIN frame_bars
         /\ last_line[i + 1] =
              Trunc(frame_bars[i] + frame_bars[i + bars_per_channel],
                    2 * execs_per_frame)

\* the sum of bar b over the engine outputs in the sequence s
RECURSIVE SumBar(_, _)
SumBar(s, b) == IF s = << >> THEN 0 ELSE Head(s)[b] + SumBar(Tail(s), b)

\* C9: the accumulator that is emitted is the arithmetic mean of the engine
\* outputs of exactly that frame's execs_per_frame execs: it is zero at the
\* start of the frame and each exec contributes with weight 1/execs_per_frame
\* (frame_bars holds numerators over execs_per_frame).
C9_FrameMean ==
  /\ (pc = "exec" /\ read_idx = 0) =>
       \A b \in DOMAIN frame_bars : frame_bars[b] = 0
  /\ (pc = "exec" \/ (pc = "frame_end" /\ finished = 0) \/ JustEmitted) =>
       /\ Len(frame_outs) = read_idx
       /\ \A b \in DOMAIN frame_bars : frame_bars[b] = SumBar(frame_outs, b)
  /\ ((pc = "frame_end" /\ finished = 0) \/ JustEmitted) =>
       Len(frame_outs) = execs_per_frame

\* C9 witness: a later frame of several execs with differing engine outputs
\* is about to be emitted
C9_Witness ==
  /\ pc = "frame_end" /\ finished = 0 /\ frames >= 1
  /\ execs_per_frame >= 2
  /\ Len(frame_outs) = execs_per_frame
  /\ frame_outs[1] # frame_outs[2]

\* C10: when the cutoff-frequency header is configured, exactly one header
\* line is emitted, before any read and before any bar-value line, holding
\* the bars_per_channel cutoff values once per output channel; when it is not
\* configured no header line is ever emitted.
HeaderLines(o) == {k \in 1 .. Len(o) : o[k].kind = "header"}

C10_Header ==
  /\ (~Entered \/ pc = "start") => (out = << >> /\ nreads = 0)
  /\ (print_freq_bands /\ Entered /\ pc # "start") =>
       /\ HeaderLines(out) = {1}
       /\ out[1].nvals = bars_per_channel * channels_out
       /\ (Len(out) = 1 =>
             \A ch \in 0 .. channels_out - 1 :
               \A i \in 0 .. bars_per_channel - 1 :
                 last_line[ch * bars_per_channel + i + 1] =
                   Trunc(cut_off_frequency(i), 10))
  /\ ~print_freq_bands => HeaderLines(out) = {}

\* C10 witness: stereo output with the header configured, after some frames
C10_Witness ==
  /\ print_freq_bands /\ channels_out = 2
  /\ pc = "done" /\ frames >= 2
  /\ out[1].kind = "header" /\ out[2].kind = "bars"

\* C11: with output channel count 2, every emitted line holds exactly
\* bars_per_channel * 2 values: the frame accumulator entries
\* 0 .. 2*bars_per_channel-1 in index order, each truncated toward zero,
\* not averaged or reordered.
C11_StereoOutputLine ==
  (JustEmitted /\ channels_out = 2) =>
    /\ Len(last_line) = bars_per_channel * 2
    /\ out[Len(out)].nvals = bars_per_channel * 2
    /\ \A i \in 0 .. 2 * bars_per_channel - 1 :
         /\ i \in DOMAIN frame_bars
         /\ last_line[i + 1] = Trunc(frame_bars[i], execs_per_frame)

\* what the claim calls a validated configuration
ValidatedConfiguration ==
  /\ bars_per_channel >= 2 /\ bars_per_channel <= 200
  /\ framerate[1] > 0
  /\ channels \in {1, 2}
  /\ rate >= 1
  /\ 1 <= cutoffs[1] /\ cutoffs[1] < cutoffs[2]

\* C12: the read-analyze loop is entered only with a validated configuration;
\* any other configuration is rejected as a fatal error during option
\* processing, before the engine is initialised, before any sample is read
\* and before any line is emitted.
C12_ValidatedBeforeLoop ==
  /\ Entered => ValidatedConfiguration
  /\ (pc # "options" /\ ~ValidatedConfiguration) =>
       /\ pc = "fatal"
       /\ plan = "none" /\ calls.init = 0
       /\ nreads = 0 /\ in_pos = 0
       /\ out = << >>
  /\ pc = "fatal" => ~ValidatedConfiguration

\* C12 witness: a configuration with a bad cutoff pair only was rejected
C12_Witness ==
  /\ pc = "fatal"
  /\ cutoffs = <<100, 100>>
  /\ bars_per_channel = 2 /\ rate = 44100 /\ channels = 2
  /\ framerate = <<25, 1>>

\* The loop is sequential code: a step that can be taken is taken.
FairSpec == Spec /\ WF_vars(Next)

\* C13: on every finite input and for every valid configuration the loop
\* eventually reaches a terminal state (stream exhausted or stream error) and
\* returns, also where samples_per_frame is below 1 and reads of length 0
\* are requested.
C13_Terminates ==
  ValidatedConfiguration => <>(pc = "done" /\ finished = 1)

\* C14: for channels == 2, any two consecutive stereo-pairing corrections in
\* read order (also across a frame boundary) have opposite signs, so that
\* they cancel on the samples requested and on Carry State.
C14_CorrectionsAlternate ==
  (channels = 2 /\ nreads > 0 /\ last_exec.offset # 0 /\ prev_corr # 0) =>
    last_exec.offset + prev_corr = 0

\* the change of Carry State made by the latest exec, from its parts
CarryDelta(e) ==
  (IF e.read_idx = execs_per_frame - 1 THEN sample_fraction_per_frame ELSE 0)
  - e.offset * samples_per_frame_den
  - (IF e.extra THEN channels * samples_per_frame_den ELSE 0)

\* C15: the fractional carry is applied only on the last exec of a frame:
\* sample_fraction_per_frame is added to Carry State once per frame, at most
\* one extra sample-pair (channels samples) is added and only to the last
\* exec, Carry State is reduced by channels exactly then, and after this step
\* Carry State is strictly below channels.
C15_CarryOnLastExec ==
  [][ nreads' = nreads + 1 =>
        /\ last_exec'.extra => last_exec'.read_idx = execs_per_frame - 1
        /\ last_exec'.read_len =
             last_exec'.base + last_exec'.offset
               + (IF last_exec'.extra THEN channels ELSE 0)
        /\ current_accumulated_sample_fractions' =
             current_accumulated_sample_fractions + CarryDelta(last_exec')
        /\ last_exec'.read_idx = execs_per_frame - 1 =>
             current_accumulated_sample_fractions'
               < channels * samples_per_frame_den ]_vars

\* C15 witness: the last exec of a frame of several execs received the extra
\* sample-pair
C15_Witness ==
  /\ nreads > 0 /\ last_exec.extra
  /\ execs_per_frame > 1 /\ last_exec.read_idx = execs_per_frame - 1
  /\ frames >= 1

\* C16: before the stereo correction and the carry, the base read length of
\* exec i is samples_per_exec + 1 when i < samples_remainder and
\* samples_per_exec otherwise; the base lengths of a frame sum to
\* floor(samples_per_frame); the last exec never gets a remainder unit.
C16_BaseLengths ==
  /\ nreads > 0 =>
       /\ last_exec.base =
            (IF last_exec.read_idx < samples_remainder
             THEN samples_per_exec + 1 ELSE samples_per_exec)
       /\ last_exec.read_idx = execs_per_frame - 1 =>
            last_exec.base = samples_per_exec
  /\ (pc = "frame_end" /\ finished = 0) => base_sum = FloorFrames(1)

\* C16 witness: a frame whose first execs carried remainder units is complete
C16_Witness ==
  /\ pc = "frame_end" /\ finished = 0
  /\ samples_remainder >= 2
  /\ base_sum = execs_per_frame * samples_per_exec + samples_remainder

\* no short read has happened yet
AllReadsFull == nreads = 0 \/ last_exec.actual = last_exec.read_len

\* C17: the input is consumed strictly sequentially: the blocks handed to
\* the engine, concatenated in exec order, are a prefix of the input stream,
\* with no sample skipped, repeated or reordered.
C17_SequentialInput ==
  /\ [][ calls'.execute = calls.execute + 1 =>
           /\ calls'.start = fed_end
           /\ calls'.count = last_exec'.actual
           /\ fed_end' = fed_end + calls'.count ]_vars
  /\ [](fed_end <= in_pos)
  /\ [](AllReadsFull => fed_end = in_pos)

\* C17 witness: blocks of different lengths were handed over across a frame
\* boundary
C17_Witness ==
  /\ calls.execute >= 3 /\ frames >= 1 /\ pc = "exec"
  /\ calls.start > 0 /\ calls.start + calls.count = fed_end
  /\ calls.count # last_exec.base
  /\ fed_end = in_pos

\* the number of reads that returned the full requested length
FullReadCount ==
  IF AllReadsFull THEN nreads ELSE nreads - 1

\* C18: the engine is initialised exactly once before the first read,
\* executed exactly once per fully successful read with sample_count equal
\* to the requested length and never on a short read, never re-initialised,
\* and destroyed exactly once after the loop on every terminal outcome, with
\* no execute after destroy.
C18_EngineLifecycle ==
  /\ [](calls.init = (IF Entered /\ pc # "start" THEN 1 ELSE 0))
  /\ [](nreads > 0 => (calls.init = 1 /\ plan # "none"))
  /\ [](calls.execute = FullReadCount)
  /\ []((calls.execute > 0 /\ AllReadsFull) =>
          calls.count = last_exec.read_len)
  /\ [](calls.destroy = (IF pc = "done" THEN 1 ELSE 0))
  /\ [](plan = "destroyed" <=> pc = "done")
  /\ [][plan = "destroyed" => calls'.execute = calls.execute]_vars
  /\ [][ calls'.execute # calls.execute =>
           /\ plan = "live"
           /\ calls'.execute = calls.execute + 1
           /\ last_exec'.actual = last_exec'.read_len ]_vars

\* C18 witness: a run that executed the engine several times, failed on a
\* read error and destroyed the plan
C18_Witness ==
  /\ pc = "done" /\ stat = "error" /\ plan = "destroyed"
  /\ calls = [init |-> 1, execute |-> nreads - 1, destroy |-> 1,
              return |-> 1, start |-> calls.start, count |-> calls.count]
  /\ calls.execute >= 3

\* a read has come back short
ShortReadSeen == nreads > 0 /\ last_exec.actual < last_exec.read_len

\* C19: the terminal states are absorbing and reached at most once: after
\* the first short read there is no further read, no further execute and no
\* further output line, and exactly one terminal outcome is returned, with
\* no retry of the failed read.
C19_TerminalAbsorbing ==
  /\ [][ ShortReadSeen =>
           /\ nreads' = nreads /\ in_pos' = in_pos
           /\ calls'.execute = calls.execute
           /\ out' = out
           /\ stat' = stat ]_vars
  /\ [][pc # "done"]_vars
  /\ [](calls.return = (IF pc = "done" THEN 1 ELSE 0))
  /\ [](pc = "done" => (ShortReadSeen /\ stat \in {"ok", "error"}))

\* C19 witness: the run returned after a short read in a later frame
C19_Witness ==
  /\ pc = "done" /\ ShortReadSeen /\ calls.return = 1
  /\ frames >= 1 /\ last_exec.actual > 0

\* C20: between the start of the run and the first output line, and between
\* two consecutive output lines, exactly execs_per_frame successful
\* read-then-execute steps occur, with exec indices 0 .. execs_per_frame-1 in
\* increasing order; the number is the same for every frame.
C20_ExecsPerLine ==
  /\ [][ BarsLines(out') > BarsLines(out) =>
           /\ since_line = [k \in 1 .. execs_per_frame |-> k - 1]
           /\ since_line' = << >> ]_vars
  /\ [](Entered => Len(since_line) <= execs_per_frame)
  /\ [](\A k \in 1 .. Len(since_line) : since_line[k] = k - 1)

\* C20 witness: a second line is about to follow a frame of several execs
C20_Witness ==
  /\ pc = "frame_end" /\ finished = 0 /\ frames >= 1
  /\ execs_per_frame >= 3
  /\ since_line = [k \in 1 .. execs_per_frame |-> k - 1]

\* C21: in exact arithmetic, after every completed frame K the sum of all
\* read lengths requested so far plus the current Carry State equals
\* K * samples_per_frame, for channels 1 and 2 alike; every stereo correction
\* and every injected sample-pair is mirrored by an equal and opposite change
\* of Carry State (both sides are numerators over the framerate numerator).
C21_AccountingIdentity ==
  /\ [](AtFrameBoundary =>
          total_requested * samples_per_frame_den
            + current_accumulated_sample_fractions
          = frames * samples_per_frame_num)
  /\ [][ nreads' = nreads + 1 =>
           (last_exec'.read_len - last_exec'.base) * samples_per_frame_den
             + (current_accumulated_sample_fractions'
                  - current_accumulated_sample_fractions)
           = (IF last_exec'.read_idx = execs_per_frame - 1
              THEN sample_fraction_per_frame ELSE 0) ]_vars

\* C21 witness: a stereo run at a frame boundary whose latest read carried
\* both a correction and an injected sample-pair
C21_Witness ==
  /\ AtFrameBoundary /\ frames >= 2 /\ channels = 2
  /\ last_exec.offset # 0 /\ last_exec.extra
  /\ total_requested * samples_per_frame_den
       + current_accumulated_sample_fractions
     = frames * samples_per_frame_num

\* C22: when a bar-value line is emitted, every index read from the frame
\* accumulator is within its bounds 0 .. bars_per_channel * channels - 1, for
\* input channel count 1 or 2 and output channel count 1 or 2.
C22_IndicesInBounds ==
  JustEmitted =>
    /\ DOMAIN frame_bars = 0 .. bars_per_channel * channels - 1
    /\ OutOfBounds(frame_bars) = {}

\* C23: for mono input (channels = 1), Carry State stays in [0, 1) at every
\* frame boundary and, in exact arithmetic, the sum of all read lengths
\* requested over the first K frames equals floor(K * samples_per_frame)
\* exactly, for every K >= 1.
C23_MonoExact ==
  (AtFrameBoundary /\ channels = 1) =>
    /\ current_accumulated_sample_fractions >= 0
    /\ current_accumulated_sample_fractions < samples_per_frame_den
    /\ total_requested = FloorFrames(frames)

\* C23 witness: a mono run with a fractional samples_per_frame in which a
\* sample was injected and a carry is left at the frame boundary
C23_Witness ==
  /\ AtFrameBoundary /\ channels = 1 /\ frames >= 3
  /\ sample_fraction_per_frame > 0
  /\ last_exec.extra
  /\ current_accumulated_sample_fractions > 0
  /\ total_requested = FloorFrames(frames)

====
